---- MODULE Spec2Model ----
(***************************************************************************)
(* A model of eslint-loader (src/index.js): the webpack loader that lints  *)
(* each module with an ESLint engine, optionally through a file-system     *)
(* cache, and reports the findings to the bundler.                         *)
(*                                                                         *)
(* JavaScript strings are modelled as sequences of one-character strings,  *)
(* so that indexOf, split and substr are computed as the code computes     *)
(* them.  JavaScript objects used as option bags are modelled as functions *)
(* from key names to values whose DOMAIN is the set of own keys.           *)
(***************************************************************************)
EXTENDS Integers, Sequences, FiniteSets, TLC

VARIABLES
    \* ---- the loader (module.exports and the state it shares) ----
    hostDefaults,   \* webpack.options.eslint, the object shared by all invocations
    engines,        \* var engines = {} : configHash -> engine instance
    built,          \* history: configHash -> number of CLIEngine constructions
    cache,          \* the cache storage: key -> stored (serialized) LintResult
    produced,       \* history: key -> the results of lint() stored for the key, in order
    inv,            \* the invocations: slot -> record (position, inputs, effects)
    \* ---- printLinterOutput applied to one drawn result ----
    pRes, pConfig, pWebpack, pOut,
    \* ---- path normalisation applied to one drawn pair of paths ----
    sep, child, parent, normalized

loaderVars == <<hostDefaults, engines, built, cache, produced, inv>>
policyVars == <<pRes, pConfig, pWebpack, pOut>>
pathVars == <<sep, child, parent, normalized>>
vars == <<hostDefaults, engines, built, cache, produced, inv,
          pRes, pConfig, pWebpack, pOut, sep, child, parent, normalized>>

(***************************************************************************)
(* Bounds of the model.                                                    *)
(***************************************************************************)
MaxInv == 2        \* loader invocations in one process
MaxFiles == 2      \* per-file records in one LintResult
MaxMsgs == 2       \* messages in one LintResult, over all its files
MaxDepth == 2      \* segments of an absolute path

(***************************************************************************)
(* JavaScript string primitives.                                           *)
(***************************************************************************)
\* s.substr(i, Len(pat)) = pat, with i a 0-based offset
MatchesAt(s, pat, i) ==
    /\ i + Len(pat) <= Len(s)
    /\ \A k \in 1..Len(pat) : s[i + k] = pat[k]

\* String.prototype.indexOf: the first 0-based offset of pat in s, or -1
IndexOf(s, pat) ==
    IF \E i \in 0..Len(s) : MatchesAt(s, pat, i)
    THEN CHOOSE i \in 0..Len(s) :
            /\ MatchesAt(s, pat, i)
            /\ \A j \in 0..(i - 1) : ~MatchesAt(s, pat, j)
    ELSE -1

\* String.prototype.split on a one-character separator (empty parts are kept)
RECURSIVE Split(_, _)
Split(s, c) ==
    IF \A i \in 1..Len(s) : s[i] # c
    THEN <<s>>
    ELSE LET i == CHOOSE k \in 1..Len(s) :
                     s[k] = c /\ \A j \in 1..(k - 1) : s[j] # c
         IN  <<SubSeq(s, 1, i - 1)>> \o Split(SubSeq(s, i + 1, Len(s)), c)

\* String.prototype.substr(n): the string from 0-based offset n on
Substr(s, n) == SubSeq(s, n + 1, Len(s))

(***************************************************************************)
(* Path normalisation: isInDir and the rewrite of resourcePath.            *)
(***************************************************************************)
isInDir(c, p, s) ==
    IF c = p
    THEN TRUE
    ELSE LET parentTokens == SelectSeq(Split(p, s), LAMBDA t : Len(t) # 0)
             childTokens == Split(c, s)
         IN  \A i \in 1..Len(parentTokens) :
                 i <= Len(childTokens) /\ childTokens[i] = parentTokens[i]

\* lines 208-215: resourcePath as handed to lint()
NormalizePath(resourcePath, cwd, s) ==
    IF isInDir(resourcePath, cwd, s)
    THEN Substr(resourcePath, Len(cwd) + 1)
    ELSE resourcePath

\* The absolute paths of the platform whose separator is s
SegNames == { <<"p", "r", "o", "j">>, <<"s", "r", "c">> }
Root(s) == IF s = "/" THEN <<"/">> ELSE <<"C", ":", s>>

RECURSIVE JoinSegs(_, _)
JoinSegs(segs, s) ==
    IF Len(segs) = 0 THEN <<>>
    ELSE IF Len(segs) = 1 THEN segs[1]
    ELSE segs[1] \o <<s>> \o JoinSegs(Tail(segs), s)

AbsPaths(s) ==
    { Root(s) \o JoinSegs(segs, s) :
        segs \in UNION { [1..n -> SegNames] : n \in 0..MaxDepth } }

(***************************************************************************)
(* LintResult: what engine.executeOnText returns.  The engine is an opaque *)
(* collaborator; its results are well formed: the counts of a file record  *)
(* count its messages by severity and the aggregate counts are their sums. *)
(***************************************************************************)
StrIgnore == <<"i", "g", "n", "o", "r", "e">>
TextFileIgnored == <<"F", "i", "l", "e", " ", "i", "g", "n", "o", "r", "e", "d">>
TextIgnoredFile == <<"i", "g", "n", "o", "r", "e", "d", " ", "f", "i", "l", "e">>
TextUnexpected == <<"U", "n", "e", "x", "p", "e", "c", "t", "e", "d">>
EnginePath == <<"<", "t", "e", "x", "t", ">">>

Warning(text) == [severity |-> 1, message |-> text]
Error(text) == [severity |-> 2, message |-> text]
MessageKinds ==
    { Warning(TextFileIgnored), Warning(TextIgnoredFile), Warning(TextUnexpected),
      Error(TextUnexpected) }

CountSeverity(messages, sev) ==
    Cardinality({ i \in 1..Len(messages) : messages[i].severity = sev })

MkFile(messages, output) ==
    [ filePath |-> EnginePath,
      messages |-> messages,
      errorCount |-> CountSeverity(messages, 2),
      warningCount |-> CountSeverity(messages, 1),
      output |-> output ]

RECURSIVE SumField(_, _)
SumField(files, field) ==
    IF Len(files) = 0 THEN 0 ELSE files[1][field] + SumField(Tail(files), field)

MkResult(files) ==
    [ results |-> files,
      errorCount |-> SumField(files, "errorCount"),
      warningCount |-> SumField(files, "warningCount") ]

MessageListsUpTo(budget) == UNION { [1..k -> MessageKinds] : k \in 0..budget }

\* the message lists of n files that hold at most budget messages together
RECURSIVE FileMessages(_, _)
FileMessages(n, budget) ==
    IF n = 0
    THEN { <<>> }
    ELSE UNION { { <<first>> \o rest : rest \in FileMessages(n - 1, budget - Len(first)) } :
                   first \in MessageListsUpTo(budget) }

LintResults ==
    UNION { { MkResult([i \in 1..n |-> MkFile(lists[i], outs[i])]) :
                lists \in FileMessages(n, MaxMsgs), outs \in [1..n -> BOOLEAN] } :
            n \in 1..MaxFiles }

(***************************************************************************)
(* printLinterOutput(res, config, webpack).  config is an option bag; an   *)
(* option is set when its key is present with a truthy value.  webpack is  *)
(* the loader context: resourcePath and whether emitError / emitWarning    *)
(* exist on it.  The value is the mutated res and the effects of the call. *)
(***************************************************************************)
Truthy(config, k) == k \in DOMAIN config /\ config[k] = TRUE

\* lines 65-70: the "skip ignored file warning" test
IgnoredFileWarning(res) ==
    /\ res.warningCount = 1
    /\ Len(res.results[1].messages) >= 1
    /\ Len(res.results[1].messages[1].message) > 0
    /\ IndexOf(res.results[1].messages[1].message, StrIgnore) > 1

\* lines 74-82: the quiet filter
QuietFilter(res, config) ==
    IF res.warningCount # 0 /\ Truthy(config, "quiet")
    THEN [res EXCEPT !.warningCount = 0,
                     !.results[1].warningCount = 0,
                     !.results[1].messages =
                         SelectSeq(@, LAMBDA message : message.severity # 1)]
    ELSE res

\* lines 92-94: every file record gets the module's resource path
StampFilePath(res, resourcePath) ==
    [res EXCEPT !.results =
        [i \in 1..Len(res.results) |-> [res.results[i] EXCEPT !.filePath = resourcePath]]]

\* SelectEmitter without the forced channels of lines 120-125
SelectEmitterByCount(res, config) ==
    IF res.errorCount # 0 THEN "error" ELSE "warning"

\* lines 116-125: the channel the diagnostic is sent on
SelectEmitter(res, config) ==
    IF Truthy(config, "emitError") THEN "error"
    ELSE IF Truthy(config, "emitWarning") THEN "warning"
    ELSE IF res.errorCount # 0 THEN "error" ELSE "warning"

\* Signal with the forced channel emitted before the fail conditions are read
SignalForcedFirst(res, config, webpack) ==
    LET emitter == SelectEmitter(res, config)
        exists == IF emitter = "error" THEN webpack.emitError ELSE webpack.emitWarning
        forced == Truthy(config, "emitError") \/ Truthy(config, "emitWarning")
    IN  IF ~exists
        THEN [thrown |-> "NoEmitter", emitted |-> {}]
        ELSE IF ~forced /\ Truthy(config, "failOnError") /\ res.errorCount # 0
        THEN [thrown |-> "FailOnError", emitted |-> {}]
        ELSE IF ~forced /\ Truthy(config, "failOnWarning") /\ res.warningCount # 0
        THEN [thrown |-> "FailOnWarning", emitted |-> {}]
        ELSE [thrown |-> "none", emitted |-> {emitter}]

\* lines 127-147: throw or emit
Signal(res, config, webpack) ==
    LET emitter == SelectEmitter(res, config)
        exists == IF emitter = "error" THEN webpack.emitError ELSE webpack.emitWarning
    IN  IF ~exists
        THEN [thrown |-> "NoEmitter", emitted |-> {}]
        ELSE IF Truthy(config, "failOnError") /\ res.errorCount # 0
        THEN [thrown |-> "FailOnError", emitted |-> {}]
        ELSE IF Truthy(config, "failOnWarning") /\ res.warningCount # 0
        THEN [thrown |-> "FailOnWarning", emitted |-> {}]
        ELSE [thrown |-> "none", emitted |-> {emitter}]

Silent(res, fixed) ==
    [done |-> TRUE, res |-> res, fixed |-> fixed, report |-> FALSE,
     thrown |-> "none", emitted |-> {}]

PrintLinterOutput(res, config, webpack) ==
    IF IgnoredFileWarning(res)
    THEN Silent(res, FALSE)
    ELSE LET q == QuietFilter(res, config)
             fixed == Truthy(config, "fix") /\ q.results[1].output
         IN  IF q.errorCount = 0 /\ q.warningCount = 0
             THEN Silent(q, fixed)
             ELSE LET st == StampFilePath(q, webpack.resourcePath)
                      sig == Signal(st, config, webpack)
                  IN  [done |-> TRUE, res |-> st, fixed |-> fixed,
                       report |-> Truthy(config, "outputReport"),
                       thrown |-> sig.thrown, emitted |-> sig.emitted]

\* The failures printLinterOutput throws as ESLintError (lines 129, 134);
\* "NoEmitter" is the plain Error of line 142.
IsESLintError(thrown) == thrown \in {"FailOnError", "FailOnWarning"}

NotRun == [done |-> FALSE]

\* The variables of a part of the model that is not running
ModulePath == <<"/", "a", ".", "j", "s">>
ModernHost == [resourcePath |-> ModulePath, emitError |-> TRUE, emitWarning |-> TRUE]
LoaderIdle ==
    /\ hostDefaults = [present |-> FALSE, options |-> <<>>]
    /\ engines = <<>>
    /\ built = <<>>
    /\ cache = <<>>
    /\ produced = <<>>
    /\ inv = <<>>

PathIdle ==
    /\ sep = "/"
    /\ child = <<>>
    /\ parent = <<>>
    /\ normalized = NotRun

PolicyIdle ==
    /\ pRes = MkResult(<<MkFile(<<>>, FALSE)>>)
    /\ pConfig = <<>>
    /\ pWebpack = ModernHost
    /\ pOut = NotRun

(***************************************************************************)
(* The loader: module.exports.  Option bags, the effective configuration,  *)
(* the engine registry, the cache gateway and the completion callback.     *)
(***************************************************************************)
\* object-assign: the own keys of source copied over target (which, in the
\* code, is the very object that is written to)
Assign(target, source) ==
    [k \in DOMAIN target \cup DOMAIN source |->
        IF k \in DOMAIN source THEN source[k] ELSE target[k]]

\* delete obj[k]
Delete(obj, k) == [x \in DOMAIN obj \ {k} |-> obj[x]]

\* obj[k] = v
Put(obj, k, v) == [x \in DOMAIN obj \cup {k} |-> IF x = k THEN v ELSE obj[x]]

\* lines 183-190: the loader defaults
LoaderDefaults ==
    [formatter |-> "stylish", cacheIdentifier |-> "versions", eslintPath |-> "eslint"]

\* lines 162-167: userOptions; hostObject is webpack.options.eslint when the
\* host has one, else webpack.query, the object getOptions returns
UserOptions(hostObject, options) == Assign(hostObject, options)

\* lines 181-197: config, with cacheIdentifier taken out
EffectiveConfig(userOptions) ==
    Delete(Assign(LoaderDefaults, userOptions), "cacheIdentifier")

\* line 195: the identifier handed to the cache
CacheIdentifier(userOptions) == Assign(LoaderDefaults, userOptions).cacheIdentifier

\* line 200: object-hash digests the keys and values of config in key order;
\* the digest is represented by the content it digests
ObjectHash(config) == config

\* new eslint.CLIEngine(config): an instance is told apart by the
\* configuration it was built from and by which construction of it it is
NewEngine(config, serial) == [config |-> config, serial |-> serial]

\* the registry step without the test of line 201
EnsureEngineAlways(registry, configHash, config, serial) ==
    Put(registry, configHash, NewEngine(config, serial))

\* lines 201-204: create the engine only once per config
EnsureEngine(registry, configHash, config, serial) ==
    IF configHash \in DOMAIN registry
    THEN registry
    ELSE Put(registry, configHash, NewEngine(config, serial))

Count(history, k) == IF k \in DOMAIN history THEN history[k] ELSE 0
History(history, k) == IF k \in DOMAIN history THEN history[k] ELSE <<>>

\* the cache key without the source
CacheKeyWithoutSource(input, identifier, config) == <<identifier, config>>

\* lines 222-226: what the cache entry is keyed by
CacheKey(input, identifier, config) == <<input, identifier, config>>

\* the transform handing the gateway the result as the output policy leaves it
TransformAfterPolicy(engineResult, config, webpack) ==
    PrintLinterOutput(engineResult, config, webpack).res

\* lines 227-229 and 244-246: transform returns what executeOnText returned
Transform(engineResult, config, webpack) == engineResult

\* The cache storage (loader-fs-cache, an external collaborator): it keeps a
\* serialized copy of the result (JSON of plain data: numbers, strings,
\* arrays), parses it back on a hit, and answers a key it holds without
\* running transform.
Serialize(result) == [json |-> result]
Deserialize(stored) == stored.json
Holds(storage, key) == key \in DOMAIN storage

\* What the loader is run with
LoaderOptions ==
    { [k \in ks |-> TRUE] :
        ks \in { {}, {"cache"}, {"cache", "quiet"}, {"cache", "failOnError"} } }
Contents == {"A", "B"}
Cwd == <<"/", "p", "r", "o", "j">>
ResourcePath == <<"/", "p", "r", "o", "j", "/", "a", ".", "j", "s">>
Host == [resourcePath |-> ResourcePath, emitError |-> TRUE, emitWarning |-> TRUE]
EngineResults ==
    { MkResult(<<MkFile(<<>>, FALSE)>>),
      MkResult(<<MkFile(<<Warning(TextUnexpected)>>, FALSE)>>),
      MkResult(<<MkFile(<<Error(TextUnexpected)>>, FALSE)>>) }

Slots == 1..MaxInv

IdleInvocation ==
    [ pc |-> "idle", options |-> <<>>, input |-> "", hostAtEntry |-> <<>>,
      config |-> <<>>, configHash |-> <<>>, identifier |-> "",
      engine |-> NewEngine(<<>>, 0), lintPath |-> <<>>, lintCalls |-> 0,
      hit |-> FALSE, raw |-> NotRun, pending |-> NotRun, received |-> NotRun,
      out |-> NotRun,
      outcome |-> "none", callbacks |-> 0, returned |-> "" ]

\* webpack.callback(null, input, map) / callback(null, input, map)
Succeed(r) ==
    [r EXCEPT !.pc = "done", !.outcome = "callbackOk",
              !.callbacks = @ + 1, !.returned = r.input]

\* callback(err)
FailByCallback(r) ==
    [r EXCEPT !.pc = "done", !.outcome = "callbackErr", !.callbacks = @ + 1]

\* an exception leaving module.exports itself: the bundler's call of the
\* loader receives it
FailByThrow(r) == [r EXCEPT !.pc = "done", !.outcome = "thrown"]

\* an exception leaving the cache's callback (lines 231-237), which the
\* storage layer calls from its own I/O completion: no caller of the bundler
\* receives it and the completion callback is never called
EscapeUncaught(r) == [r EXCEPT !.pc = "done", !.outcome = "uncaught"]

\* line 240-241: printLinterOutput(lint(...)); webpack.callback(null, input, map)
FinishSync(r, engineResult) ==
    LET out == PrintLinterOutput(engineResult, r.config, Host)
        r2 == [r EXCEPT !.raw = engineResult, !.received = engineResult,
                        !.out = out, !.lintCalls = @ + 1]
    IN  IF out.thrown # "none" THEN FailByThrow(r2) ELSE Succeed(r2)

\* lines 231-237 with err unset: printLinterOutput(res); callback(null, input, map)
FinishCached(r, res) ==
    LET out == PrintLinterOutput(res, r.config, Host)
        r2 == [r EXCEPT !.received = res, !.out = out]
    IN  IF out.thrown # "none" THEN EscapeUncaught(r2) ELSE Succeed(r2)

\* lines 159-217: merge the options, get the engine, normalise the path
Prepared(i, options, input) ==
    LET hostObject == IF hostDefaults.present THEN hostDefaults.options ELSE options
        userOptions == UserOptions(hostObject, options)
        config == EffectiveConfig(userOptions)
        configHash == ObjectHash(config)
    IN  [IdleInvocation EXCEPT
            !.options = options, !.input = input,
            !.hostAtEntry = hostDefaults,
            !.config = config, !.configHash = configHash,
            !.identifier = CacheIdentifier(userOptions),
            !.lintPath = NormalizePath(ResourcePath, Cwd, "/")]

\* line 162: assign writes the invocation's options into its first
\* argument, which is the host's own object when the host has one
HostAfter(options) ==
    IF hostDefaults.present
    THEN [hostDefaults EXCEPT !.options = UserOptions(hostDefaults.options, options)]
    ELSE hostDefaults

\* lines 199-204 and 217: the registry after the invocation, and the engine
\* the invocation lints with
WithEngine(i, r) ==
    LET serial == Count(built, r.configHash) + 1
        registry == EnsureEngine(engines, r.configHash, r.config, serial)
        constructed == r.configHash \notin DOMAIN engines
                         \/ registry[r.configHash] # engines[r.configHash]
    IN  /\ engines' = registry
        /\ built' = IF constructed THEN Put(built, r.configHash, serial) ELSE built

\* module.exports(input, map) when require(config.eslintPath) or the
\* CLIEngine constructor throws (line 202-203): nothing is registered
StartEngineFails(i, options, input) ==
    /\ inv[i].pc = "idle"
    /\ \A j \in 1..(i - 1) : inv[j].pc # "idle"
    /\ LET r == Prepared(i, options, input)
       IN  /\ r.configHash \notin DOMAIN engines
           /\ inv' = [inv EXCEPT ![i] = FailByThrow(r)]
    /\ hostDefaults' = HostAfter(options)
    /\ UNCHANGED <<engines, built, cache, produced, policyVars, pathVars>>

\* module.exports(input, map) with config.cache unset, lines 159-217 and
\* 240-241.  lintResult: what executeOnText returns, or NotRun when it throws
StartSync(i, options, input, lintResult) ==
    /\ inv[i].pc = "idle"
    /\ \A j \in 1..(i - 1) : inv[j].pc # "idle"
    /\ LET r == Prepared(i, options, input)
       IN  /\ ~Truthy(r.config, "cache")
           /\ WithEngine(i, r)
           /\ LET r1 == [r EXCEPT !.engine = engines'[r.configHash]]
              IN  inv' = [inv EXCEPT ![i] =
                    IF lintResult = NotRun
                    THEN FailByThrow([r1 EXCEPT !.lintCalls = @ + 1])
                    ELSE FinishSync(r1, lintResult)]
    /\ hostDefaults' = HostAfter(options)
    /\ UNCHANGED <<cache, produced, policyVars, pathVars>>

\* module.exports(input, map) with config.cache set, lines 159-239, up to
\* the return of the call: the cache is asked and will answer later
StartCached(i, options, input) ==
    /\ inv[i].pc = "idle"
    /\ \A j \in 1..(i - 1) : inv[j].pc # "idle"
    /\ LET r == Prepared(i, options, input)
       IN  /\ Truthy(r.config, "cache")
           /\ WithEngine(i, r)
           /\ inv' = [inv EXCEPT ![i] =
                 [r EXCEPT !.engine = engines'[r.configHash], !.pc = "reading"]]
    /\ hostDefaults' = HostAfter(options)
    /\ UNCHANGED <<cache, produced, policyVars, pathVars>>

\* the cache answers with a stored entry: the callback runs on it
CacheHit(i) ==
    /\ inv[i].pc = "reading"
    /\ LET r == inv[i]
           key == CacheKey(r.input, r.identifier, r.config)
       IN  /\ Holds(cache, key)
           /\ inv' = [inv EXCEPT ![i] =
                 FinishCached([r EXCEPT !.hit = TRUE], Deserialize(cache[key]))]
    /\ UNCHANGED <<hostDefaults, engines, built, cache, produced, policyVars, pathVars>>

\* the cache has no entry: transform runs, and its result is serialized for
\* the write; a throw of executeOnText is handed to the callback as err
CacheMiss(i, lintResult) ==
    /\ inv[i].pc = "reading"
    /\ LET r == inv[i]
           key == CacheKey(r.input, r.identifier, r.config)
       IN  /\ ~Holds(cache, key)
           /\ inv' = [inv EXCEPT ![i] =
                 IF lintResult = NotRun
                 THEN FailByCallback([r EXCEPT !.lintCalls = @ + 1])
                 ELSE [r EXCEPT !.pc = "writing", !.lintCalls = @ + 1,
                                !.raw = lintResult,
                                !.pending = Serialize(Transform(lintResult, r.config, Host))]]
    /\ UNCHANGED <<hostDefaults, engines, built, cache, produced, policyVars, pathVars>>

\* the write completes: the entry is stored, then the callback runs on the
\* result transform returned
CacheWritten(i) ==
    /\ inv[i].pc = "writing"
    /\ LET r == inv[i]
           key == CacheKey(r.input, r.identifier, r.config)
       IN  /\ cache' = Put(cache, key, r.pending)
           /\ produced' = Put(produced, <<r.input, r.identifier, r.config>>,
                               Append(History(produced, <<r.input, r.identifier, r.config>>),
                                      r.raw))
           /\ inv' = [inv EXCEPT ![i] = FinishCached(r, Transform(r.raw, r.config, Host))]
    /\ UNCHANGED <<hostDefaults, engines, built, policyVars, pathVars>>

\* the storage layer reports an error: callback(err), lines 232-234
StorageError(i) ==
    /\ inv[i].pc \in {"reading", "writing"}
    /\ inv' = [inv EXCEPT ![i] = FailByCallback(inv[i])]
    /\ UNCHANGED <<hostDefaults, engines, built, cache, produced, policyVars, pathVars>>

Init ==
    /\ hostDefaults \in [present : BOOLEAN, options : {<<>>}]
    /\ engines = <<>>
    /\ built = <<>>
    /\ cache = <<>>
    /\ produced = <<>>
    /\ inv = [i \in Slots |-> IdleInvocation]
    /\ PolicyIdle
    /\ PathIdle

Next ==
    \/ \E i \in Slots, options \in LoaderOptions, input \in Contents :
            StartEngineFails(i, options, input)
    \/ \E i \in Slots, options \in LoaderOptions, input \in Contents,
          lintResult \in EngineResults \cup {NotRun} :
            StartSync(i, options, input, lintResult)
    \/ \E i \in Slots, options \in LoaderOptions, input \in Contents :
            StartCached(i, options, input)
    \/ \E i \in Slots : CacheHit(i)
    \/ \E i \in Slots, lintResult \in EngineResults \cup {NotRun} : CacheMiss(i, lintResult)
    \/ \E i \in Slots : CacheWritten(i)
    \/ \E i \in Slots : StorageError(i)

Spec == Init /\ [][Next]_vars

(***************************************************************************)
(* Properties of the loader.                                               *)
(***************************************************************************)
HasEngine(i) == inv[i].engine.serial > 0
ContentKey(i) == <<inv[i].input, inv[i].identifier, inv[i].config>>
AnsweredByCache(i) ==
    inv[i].pc = "done" /\ Truthy(inv[i].config, "cache") /\ inv[i].received # NotRun

\* C1: the registry holds at most one engine per ConfigHash: an engine is
\* constructed once per hash, every invocation lints with the instance the
\* registry holds for its hash, invocations with identical host defaults and
\* options derive the same hash and instance, and an instance that was used
\* is still the registry's entry.
C1_OneEnginePerConfig ==
    /\ DOMAIN built = DOMAIN engines
    /\ \A h \in DOMAIN engines : built[h] = 1 /\ engines[h].serial = 1
    /\ \A i \in Slots : HasEngine(i) =>
          /\ inv[i].configHash \in DOMAIN engines
          /\ engines[inv[i].configHash] = inv[i].engine
    /\ \A i, j \in Slots :
          (HasEngine(i) /\ HasEngine(j)
             /\ inv[i].hostAtEntry = inv[j].hostAtEntry
             /\ inv[i].options = inv[j].options)
          => inv[i].configHash = inv[j].configHash /\ inv[i].engine = inv[j].engine

C1_Witness ==
    \E i, j \in Slots :
        /\ i < j
        /\ HasEngine(i) /\ HasEngine(j)
        /\ inv[i].hostAtEntry = inv[j].hostAtEntry /\ inv[i].options = inv[j].options
        /\ inv[j].engine = inv[i].engine
        /\ built[inv[i].configHash] = 1
        /\ Cardinality(DOMAIN engines) = 1

\* C2: with caching on, an invocation answered by a hit receives a result
\* the lint invoker produced on an earlier miss for the same content,
\* identifier and configuration, without calling the lint invoker; an invocation
\* answered after a miss called it exactly once, receives what it produced,
\* and the entry is stored by then.
C2_HitServesMissResult ==
    \A i \in Slots : AnsweredByCache(i) =>
        IF inv[i].hit
        THEN /\ inv[i].lintCalls = 0
             /\ ContentKey(i) \in DOMAIN produced
             /\ \E n \in 1..Len(produced[ContentKey(i)]) :
                   inv[i].received = produced[ContentKey(i)][n]
        ELSE /\ inv[i].lintCalls = 1
             /\ inv[i].received = inv[i].raw
             /\ ContentKey(i) \in DOMAIN produced

C2_Witness ==
    \E i, j \in Slots :
        /\ AnsweredByCache(i) /\ ~inv[i].hit /\ inv[i].lintCalls = 1
        /\ AnsweredByCache(j) /\ inv[j].hit /\ inv[j].lintCalls = 0
        /\ ContentKey(i) = ContentKey(j)
        /\ inv[j].received = inv[i].raw

\* C8: every finished invocation has returned control in exactly one way:
\* the completion callback called once with the original input and no
\* error, or a failure thrown to the bundler, or the completion callback
\* called once with the error.
C8_CompletesExactlyOnce ==
    \A i \in Slots : inv[i].pc = "done" =>
        \/ inv[i].outcome = "callbackOk" /\ inv[i].callbacks = 1
              /\ inv[i].returned = inv[i].input
        \/ inv[i].outcome = "thrown" /\ inv[i].callbacks = 0
        \/ inv[i].outcome = "callbackErr" /\ inv[i].callbacks = 1

\* C9: what the output policy changes in a result never reaches the cache:
\* the entry stored for a key is the result the lint invoker produced for it
\* (the one stored last).
C9_CacheHoldsUnmodifiedResult ==
    /\ DOMAIN cache = DOMAIN produced
    /\ \A k \in DOMAIN cache : Deserialize(cache[k]) = produced[k][Len(produced[k])]

C9_Witness ==
    \E i \in Slots :
        /\ AnsweredByCache(i) /\ ~inv[i].hit
        /\ Truthy(inv[i].config, "quiet")
        /\ inv[i].raw.warningCount = 1
        /\ inv[i].out.res.warningCount = 0
        /\ inv[i].out.res # inv[i].raw
        /\ Deserialize(cache[ContentKey(i)]) = inv[i].raw

\* C10: an invocation leaves the host-level defaults as they were.
C10_HostDefaultsUnchanged == [][hostDefaults' = hostDefaults]_vars

(***************************************************************************)
(* SpecPolicy: printLinterOutput applied once to any result, under any     *)
(* configuration, on any host.                                             *)
(***************************************************************************)
PolicyKeys ==
    {"quiet", "fix", "emitError", "emitWarning", "failOnError", "failOnWarning",
     "outputReport"}
PolicyConfigs == { [k \in ks |-> TRUE] : ks \in SUBSET PolicyKeys }
Hosts ==
    [resourcePath : {ModulePath}, emitError : BOOLEAN, emitWarning : BOOLEAN]

InitPolicy ==
    /\ pRes \in LintResults
    /\ pConfig \in PolicyConfigs
    /\ pWebpack \in Hosts
    /\ pOut = NotRun
    /\ LoaderIdle
    /\ PathIdle

ApplyPolicy ==
    /\ ~pOut.done
    /\ pOut' = PrintLinterOutput(pRes, pConfig, pWebpack)
    /\ UNCHANGED <<pRes, pConfig, pWebpack, loaderVars, pathVars>>

NextPolicy == ApplyPolicy

SpecPolicy == InitPolicy /\ [][NextPolicy]_vars

(***************************************************************************)
(* Properties of printLinterOutput.                                        *)
(***************************************************************************)
AllMessages(res) ==
    { res.results[i].messages[j] :
        <<i, j>> \in { t \in (1..Len(res.results)) \X (1..(MaxMsgs + 1)) :
                          t[2] <= Len(res.results[t[1]].messages) } }

OfSeverity(messages, sev) == SelectSeq(messages, LAMBDA m : m.severity = sev)

NothingDone(out, res) ==
    /\ out.res = res
    /\ ~out.fixed
    /\ ~out.report
    /\ out.emitted = {}
    /\ out.thrown = "none"

\* The channel the claims name, read off the configuration and the counts
ExpectedChannel(config, errorCount) ==
    IF Truthy(config, "emitError") THEN "error"
    ELSE IF Truthy(config, "emitWarning") THEN "warning"
    ELSE IF errorCount > 0 THEN "error" ELSE "warning"

ChannelExists(webpack, channel) ==
    IF channel = "error" THEN webpack.emitError ELSE webpack.emitWarning

FailConditionMet ==
    \/ Truthy(pConfig, "failOnError") /\ pOut.res.errorCount > 0
    \/ Truthy(pConfig, "failOnWarning") /\ pOut.res.warningCount > 0

\* C3: under quiet mode, a result with warnings that is not skipped as an
\* ignored file ends with the aggregate warningCount 0, every file record's
\* warningCount 0, no severity-1 message in any file, errorCount and the
\* severity-2 messages unchanged, and nothing emitted or thrown when there
\* are no errors.
C3_QuietSilencesEveryFile ==
    (pOut.done /\ Truthy(pConfig, "quiet") /\ pRes.warningCount > 0
        /\ ~IgnoredFileWarning(pRes))
    => /\ pOut.res.warningCount = 0
       /\ \A i \in 1..Len(pOut.res.results) :
             /\ pOut.res.results[i].warningCount = 0
             /\ OfSeverity(pOut.res.results[i].messages, 1) = <<>>
             /\ OfSeverity(pOut.res.results[i].messages, 2)
                    = OfSeverity(pRes.results[i].messages, 2)
       /\ pOut.res.errorCount = pRes.errorCount
       /\ (pRes.errorCount = 0 => pOut.emitted = {} /\ pOut.thrown = "none")

\* C4: a result with exactly one warning and no errors whose single message
\* contains "ignore" anywhere is skipped whatever the configuration:
\* nothing is filtered, fixed, reported, emitted or thrown.
C4_IgnoreAnywhereIsSkipped ==
    (pOut.done /\ pRes.warningCount = 1 /\ pRes.errorCount = 0
        /\ \A m \in AllMessages(pRes) : IndexOf(m.message, StrIgnore) >= 0)
    => NothingDone(pOut, pRes)

C7_EmitterSelection ==
    (pOut.done /\ ~IgnoredFileWarning(pRes) /\ pOut.thrown = "none"
        /\ (pOut.res.errorCount > 0 \/ pOut.res.warningCount > 0))
    => pOut.emitted = {ExpectedChannel(pConfig, pOut.res.errorCount)}

C7_Witness ==
    /\ pOut.done
    /\ Truthy(pConfig, "emitError")
    /\ pOut.res.errorCount = 0 /\ pOut.res.warningCount = 2
    /\ pOut.emitted = {"error"}

(***************************************************************************)
(* SpecPath: the resource path of any module normalised against any        *)
(* working directory, on a POSIX and on a Windows platform.                *)
(***************************************************************************)
InitPath ==
    /\ sep \in {"/", "\\"}
    /\ child \in AbsPaths(sep)
    /\ parent \in AbsPaths(sep)
    /\ normalized = NotRun
    /\ LoaderIdle
    /\ PolicyIdle

Normalize ==
    /\ ~normalized.done
    /\ normalized' = [done |-> TRUE, path |-> NormalizePath(child, parent, sep)]
    /\ UNCHANGED <<sep, child, parent, loaderVars, policyVars>>

NextPath == Normalize

SpecPath == InitPath /\ [][NextPath]_vars

\* The segments of a path: its non-empty parts between separators
Segments(path, s) == SelectSeq(Split(path, s), LAMBDA t : Len(t) # 0)

InsideBase(c, p, s) ==
    \A i \in 1..Len(Segments(p, s)) :
        i <= Len(Segments(c, s)) /\ Segments(c, s)[i] = Segments(p, s)[i]

\* C6: the path handed to the linter is the resource path unchanged when it
\* equals the base directory or is not inside it, and the resource path
\* without the base prefix and the separator after it when every segment of
\* the base equals the segment of the resource path at the same index.
C6_PathNormalization ==
    normalized.done
    => normalized.path =
         IF child = parent \/ ~InsideBase(child, parent, sep)
         THEN child
         ELSE SubSeq(child, Len(parent) + 2, Len(child))

====
